---- MODULE Spec2Model ----
(***************************************************************************)
(* wsmonitor: the storage API over its growing connection pool             *)
(* (wsmonitor/api.py), the checker daemon (wsmonitor/checker.py) and the   *)
(* database updater daemon (wsmonitor/dbupdate.py).                        *)
(*                                                                         *)
(* Threads run the API functions step by step.  One step is one statement  *)
(* that touches shared state; a read-modify-write of a shared attribute    *)
(* that the code does without a lock is a read step and a write step.      *)
(***************************************************************************)
EXTENDS Integers, Sequences, FiniteSets, TLC

None == "None"

(* ---------------------------------------------------------------- bounds *)
\* threads of one process that call the storage API concurrently
NThreads == 2
Threads == 1..NThreads
\* API calls started in one behaviour
MaxCalls == 3
\* database_init calls in one behaviour
MaxInits == 2
\* check workers of the checker process
NWorkers == 2
Workers == 1..NWorkers
\* rounds of the poller over the watch list
MaxRounds == 1

(* ------------------------------------------------------ program constants *)
\* MetricConnectionPool.__init__: super().__init__(2, 2, ...)
POOL_MINCONN == 2
POOL_MAXCONN == 2
\* checker.py: tasks = queue.Queue(maxsize=8)
TASKS_MAXSIZE == 8
\* CHECK_PERIOD = 20, seconds between the starts of two rounds of the poller
CHECK_PERIOD == 20
\* dbupdate.py: tasks = queue.Queue(maxsize=8)
DBUPDATE_TASKS_MAXSIZE == 8

VARIABLES
    \* the connection pool of one process
    pool_exists,   \* _connection_pool is not None
    minconn,       \* _connection_pool.minconn
    maxconn,       \* _connection_pool.maxconn
    pool_idle,     \* len(_connection_pool._pool): open connections not in use
    used,          \* len(_connection_pool._used): connections handed out
    put_closed,    \* number of connections that putconn has closed
    pools_made,    \* pools created since _connection_pool was last None
    open_listings, \* url_list / url_status generators not yet run to their end
    \* the threads of that process
    pc,            \* pc[t]: where thread t stands in its API call
    op,            \* op[t]: the call thread t is running, with its arguments
    reg,           \* reg[t]: the attribute value thread t has read for a store
    ret,           \* ret[t]: what the call of thread t has got from its statement
    calls,         \* number of API calls started so far
    \* the database
    websites,      \* table websites: id -> [url, regexp, metrics]
    next_id,       \* next value of the SERIAL sequence of websites.id
    \* history of the calls (not program state; the properties read it)
    inserted,      \* the rows the INSERT of url_add has added so far
    deleted,       \* the issued ids a DELETE of url_remove has run for
    append_log,    \* id -> the metrics database_add_metric added to that entry
    inits,         \* number of database_init calls run so far
    \* the checker process
    polls,         \* rounds over the watch list the poller has started
    sent,          \* rows of the current listing the poller has put on tasks
    tasks,         \* checker.tasks, the queue of (id, url, regexp)
    wpc,           \* wpc[w]: where check worker w stands
    task,          \* task[w]: the task check worker w took
    probe,         \* probe[w]: what urlopen and read gave check worker w
    cycle,         \* the clock readings of a round and the sleep that ended it
    \* the bus
    kafka_producer,  \* _kafka_producer is not None
    bus,           \* the messages of the topic, in the order of their offsets
    clients,       \* the KafkaProducer and KafkaConsumer objects created so far
    \* the updater process
    offset,        \* messages the subscription of kafka_get_metrics has read
    dbupdate_tasks,  \* dbupdate.tasks, the queue of metrics
    held,          \* held[t]: the metric updater worker t took from its queue
    \* the locks of the singletons
    connection_pool_lock,  \* _connection_pool_lock is held
    kafka_producer_lock,   \* _kafka_producer_lock is held
    lock_errors    \* the errors the singleton sections have raised to callers

poolvars == <<pool_exists, minconn, maxconn, pool_idle, used, put_closed, pools_made>>

threadvars == <<pc, op, reg, ret>>
dbvars == <<websites, next_id>>
histvars == <<inserted, deleted, append_log>>
worldvars == <<dbvars, histvars, open_listings>>
checkervars == <<polls, sent, tasks, wpc, task, probe, cycle>>
busvars == <<kafka_producer, bus, clients>>
lockvars == <<connection_pool_lock, kafka_producer_lock, lock_errors>>
updatervars == <<offset, dbupdate_tasks, held>>
pipevars == <<inits, checkervars, busvars, lockvars, updatervars>>
vars == <<poolvars, threadvars, calls, worldvars, pipevars>>

(* -------------------------------------------- text of integers and booleans *)
\* Texts are sequences of one-character strings.
Digits == <<"0", "1", "2", "3", "4", "5", "6", "7", "8", "9">>
DigitSet == {Digits[i] : i \in 1..Len(Digits)}
DigitValue(c) == (CHOOSE i \in 1..Len(Digits) : Digits[i] = c) - 1

RECURSIVE NatText(_)
NatText(n) ==
    IF n < Len(Digits) THEN <<Digits[n + 1]>>
    ELSE Append(NatText(n \div Len(Digits)), Digits[(n % Len(Digits)) + 1])

\* the text PostgreSQL prints for an INTEGER field
IntText(n) == IF n < 0 THEN <<"-">> \o NatText(-n) ELSE NatText(n)

IsDigits(s) == Len(s) > 0 /\ \A i \in 1..Len(s) : s[i] \in DigitSet

RECURSIVE NatValue(_)
NatValue(s) ==
    IF Len(s) = 0 THEN 0
    ELSE NatValue(SubSeq(s, 1, Len(s) - 1)) * Len(Digits) + DigitValue(s[Len(s)])

\* Python's int(text): a record with ok = FALSE stands for ValueError
PyInt(s) ==
    IF IsDigits(s) THEN [ok |-> TRUE, val |-> NatValue(s)]
    ELSE IF Len(s) > 1 /\ s[1] = "-" /\ IsDigits(Tail(s))
         THEN [ok |-> TRUE, val |-> 0 - NatValue(Tail(s))]
         ELSE [ok |-> FALSE, val |-> 0]

(* ------------------------------------------------ the composite type metric *)
\* Instants are counted in ticks; TicksPerSecond ticks make one second.
TicksPerSecond == 4

\* a column that cuts the value to its whole second
PgTimestamp0_Cut(ticks) == ticks \div TicksPerSecond
\* time_stamp TIMESTAMP(0) WITH TIME ZONE (line 87): PostgreSQL rounds the value
\* it stores to the nearest whole second, the half upwards.  The result is in
\* seconds.
PgTimestamp0(ticks) == (2 * ticks + TicksPerSecond) \div (2 * TicksPerSecond)

\* psycopg2 adapts None, False, True to NULL, false, true
PgBool(b) == CASE b = "True" -> "t" [] b = "False" -> "f" [] OTHER -> "NULL"

\* (%s, %s, %s, %s)::metric, lines 217-221: the row value that is stored
PgMetric(timestamp, response_time, return_code, regex_check) ==
    [time_stamp |-> PgTimestamp0(timestamp),
     response_time |-> response_time,
     return_code |-> return_code,
     regex_check |-> PgBool(regex_check)]

\* The text of a stored metric as the server sends it: the quoted timestamp
\* with its zone offset in hours, the two integers, and t, f or nothing.
PgZone == <<"+", "0", "0">>
PgMetricText(m) ==
    <<"(", "\"">> \o NatText(m.time_stamp) \o PgZone \o <<"\"", ",">>
    \o IntText(m.response_time) \o <<",">>
    \o IntText(m.return_code) \o <<",">>
    \o (CASE m.regex_check = "t" -> <<"t">>
          [] m.regex_check = "f" -> <<"f">>
          [] OTHER -> <<>>)
    \o <<")">>

\* datetime.fromisoformat on the text of a timestamp: whole seconds, then an
\* offset +HH:MM; an offset without its minutes is a ValueError (ok = FALSE).
FromIsoFormat(s) ==
    LET plus == {i \in 1..Len(s) : s[i] = "+"}
    IN  IF plus = {} THEN [ok |-> FALSE, secs |-> 0, utcoffset |-> 0]
        ELSE LET i == CHOOSE i \in plus : \A j \in plus : i <= j
                 clock == SubSeq(s, 1, i - 1)
                 zone == SubSeq(s, i + 1, Len(s))
                 zoneOk == /\ Len(zone) = 5
                           /\ zone[3] = ":"
                           /\ IsDigits(SubSeq(zone, 1, 2))
                           /\ IsDigits(SubSeq(zone, 4, 5))
             IN  IF IsDigits(clock) /\ zoneOk
                    THEN [ok |-> TRUE, secs |-> NatValue(clock),
                          utcoffset |-> NatValue(SubSeq(zone, 1, 2)) * 60
                                        + NatValue(SubSeq(zone, 4, 5))]
                    ELSE [ok |-> FALSE, secs |-> 0, utcoffset |-> 0]

\* re.match(r'\("(.+)",(.+),(.+),(.*)\)', value), line 37: the places
\* <<a, b, c, e>> of the three separating commas and of the closing
\* parenthesis; the groups are greedy, so the rightmost places win.
MetricSplits(value) ==
    LET commas == {i \in 1..Len(value) : value[i] = ","}
        closes == {i \in 1..Len(value) : value[i] = ")"}
    IN  {q \in commas \X commas \X commas \X closes :
            /\ value[1] = "(" /\ value[2] = "\""
            /\ 4 < q[1] /\ q[1] + 1 < q[2] /\ q[2] + 1 < q[3] /\ q[3] < q[4]
            /\ value[q[1] - 1] = "\""}

Later(p, q) ==
    \/ p[1] > q[1]
    \/ p[1] = q[1] /\ p[2] > q[2]
    \/ p[1] = q[1] /\ p[2] = q[2] /\ p[3] > q[3]
    \/ p[1] = q[1] /\ p[2] = q[2] /\ p[3] = q[3] /\ p[4] >= q[4]

BadMetric == [ok |-> FALSE, timestamp |-> [secs |-> 0, utcoffset |-> 0],
              response_time |-> 0, return_code |-> 0, regex_check |-> None]

\* _cast_metric, lines 27-56: the text of a stored metric to the tuple
\* (timestamp, response_time, return_code, regex_check); ok = FALSE stands for
\* the error it raises.
cast_metric(value) ==
    LET S == MetricSplits(value)
    IN  IF S = {} THEN BadMetric
        ELSE LET q == CHOOSE p \in S : \A r \in S : Later(p, r)
                 g1 == SubSeq(value, 3, q[1] - 2)
                 g2 == SubSeq(value, q[1] + 1, q[2] - 1)
                 g3 == SubSeq(value, q[2] + 1, q[3] - 1)
                 g4 == SubSeq(value, q[3] + 1, q[4] - 1)
                 ts == FromIsoFormat(g1 \o <<":", "0", "0">>)
                 rt == PyInt(g2)
                 rc == PyInt(g3)
             IN  IF ts.ok /\ rt.ok /\ rc.ok /\ g4 \in {<<>>, <<"f">>, <<"t">>}
                    THEN [ok |-> TRUE,
                          timestamp |-> [secs |-> ts.secs, utcoffset |-> ts.utcoffset],
                          response_time |-> rt.val,
                          return_code |-> rc.val,
                          regex_check |-> CASE g4 = <<"t">> -> "True"
                                            [] g4 = <<"f">> -> "False"
                                            [] OTHER -> None]
                    ELSE BadMetric

(* ------------------------------------------------------- connection pool *)
\* psycopg2's AbstractConnectionPool._getconn, run under the pool's own lock by
\* ThreadedConnectionPool.getconn: take an idle connection, else open one while
\* len(_used) differs from maxconn, else raise 'connection pool exhausted'.
PoolHasRoom == pool_idle > 0 \/ used # maxconn

PoolTake(t) ==
    /\ used' = used + 1
    /\ pool_idle' = IF pool_idle > 0 THEN pool_idle - 1 ELSE pool_idle

\* line 132, _connection_pool.maxconn += 1: the load of the attribute ...
GrowRead(t) ==
    /\ pc[t] = "grow_read"
    /\ reg' = [reg EXCEPT ![t] = maxconn]
    /\ pc' = [pc EXCEPT ![t] = "grow_write"]
    /\ UNCHANGED <<poolvars, op, ret, calls, worldvars,
                   pipevars>>

\* ... and the store of the incremented value.
GrowWrite(t) ==
    /\ pc[t] = "grow_write"
    /\ maxconn' = reg[t] + 1
    /\ pc' = [pc EXCEPT ![t] = "floor_read"]
    /\ UNCHANGED <<pool_exists, minconn, pool_idle, used, put_closed, pools_made, op, reg, ret, calls, worldvars,
                   pipevars>>

\* line 134, _connection_pool.minconn = _connection_pool.maxconn: the load ...
FloorRead(t) ==
    /\ pc[t] = "floor_read"
    /\ reg' = [reg EXCEPT ![t] = maxconn]
    /\ pc' = [pc EXCEPT ![t] = "floor_write"]
    /\ UNCHANGED <<poolvars, op, ret, calls, worldvars,
                   pipevars>>

\* ... and the store.
FloorWrite(t) ==
    /\ pc[t] = "floor_write"
    /\ minconn' = reg[t]
    /\ reg' = [reg EXCEPT ![t] = 0]
    /\ pc' = [pc EXCEPT ![t] = "getconn_retry"]
    /\ UNCHANGED <<pool_exists, maxconn, pool_idle, used, put_closed, pools_made, op, ret, calls, worldvars,
                   pipevars>>

\* line 135: the second super().getconn(key); its PoolError is not caught and
\* ends the call of the API function.
GetConnRetry(t) ==
    /\ pc[t] = "getconn_retry"
    /\ IF PoolHasRoom
          THEN /\ PoolTake(t)
               /\ pc' = [pc EXCEPT ![t] = "execute"]
          ELSE /\ pc' = [pc EXCEPT ![t] = "pool_error"]
               /\ UNCHANGED <<used, pool_idle>>
    /\ UNCHANGED <<pool_exists, minconn, maxconn, put_closed, pools_made, op, reg, ret, calls,
                   worldvars,
                   pipevars>>

\* _release_db_connection -> psycopg2 _putconn: the connection goes back to
\* _pool while len(_pool) < minconn, and is closed otherwise.
PoolPut ==
    /\ used' = used - 1
    /\ IF pool_idle < minconn
          THEN pool_idle' = pool_idle + 1 /\ UNCHANGED put_closed
          ELSE put_closed' = put_closed + 1 /\ UNCHANGED pool_idle
    /\ UNCHANGED <<pool_exists, minconn, maxconn, pools_made>>

(* ---------------------------------------------------- the metrics in use *)
\* The metrics the calls append: instants between two whole seconds, nearer
\* to the earlier and nearer to the later one, a negative return code, each
\* value of regex_check.  OldMetric was appended by an earlier process.
ApiMetrics ==
    {[timestamp |-> TicksPerSecond + 1, response_time |-> 15,
      return_code |-> 200, regex_check |-> "True"],
     [timestamp |-> 2 * TicksPerSecond - 1, response_time |-> 0,
      return_code |-> 0 - 1, regex_check |-> None],
     [timestamp |-> TicksPerSecond, response_time |-> 120,
      return_code |-> 200, regex_check |-> "False"]}
OldMetric == [timestamp |-> 3 * TicksPerSecond, response_time |-> 7,
              return_code |-> 404, regex_check |-> None]

\* _cast_metric applied to the text of each of these metrics as stored
Decoded ==
    [m \in {PgMetric(a.timestamp, a.response_time, a.return_code, a.regex_check) :
                a \in ApiMetrics \cup {OldMetric}} |->
        cast_metric(PgMetricText(m))]
\* the typecaster registered for metric, lines 106-112, on one array element
typecast(m) == IF m \in DOMAIN Decoded THEN Decoded[m]
               ELSE cast_metric(PgMetricText(m))

\* The table as an earlier process left it: two entries with the first two
\* ids, the second with the metric OldMetric in its history.
OldTable ==
    <<[url |-> "http://old", regexp |-> None, metrics |-> <<>>],
      [url |-> "http://older", regexp |-> "a.c",
       metrics |-> <<PgMetric(OldMetric.timestamp, OldMetric.response_time,
                              OldMetric.return_code, OldMetric.regex_check)>>]>>
OldAppends == <<<<>>, <<OldMetric>>>>

(* ------------------------------------------------------------ API calls *)
NoMetric == [timestamp |-> 0, response_time |-> 0, return_code |-> 0,
             regex_check |-> None]
NoCall == [name |-> "none", url |-> "", regexp |-> None, id |-> 0,
           metric |-> NoMetric, all |-> TRUE, ids |-> {}]
NoRet == [kind |-> "none", id |-> 0, rows |-> <<>>, rowcount |-> 0]

\* a test that never finds the pool
PoolMissing_Always == TRUE
\* `if _connection_pool is None`, line 152, under _connection_pool_lock
PoolMissing == ~pool_exists

\* A thread calls an API function.  Each of them starts with
\* _get_db_connection (lines 149-165): under _connection_pool_lock the
\* singleton pool is created when there is none, with its two connections;
\* then getconn (line 125) takes a connection, or finds the pool exhausted and
\* goes on to raise the ceiling.  Which function runs, and with which
\* arguments, shows at its statement.
\* The lock is taken and released within the step; a caller that finds
\* it held gets no connection.
get_db_connection(t) ==
    /\ pc[t] = "idle"
    /\ calls < MaxCalls
    /\ ~connection_pool_lock
    /\ calls' = calls + 1
    /\ pool_exists' = TRUE
    /\ pools_made' = IF PoolMissing THEN pools_made + 1 ELSE pools_made
    /\ LET idle == IF PoolMissing THEN POOL_MINCONN ELSE pool_idle
           out == IF PoolMissing THEN 0 ELSE used
           ceiling == IF PoolMissing THEN POOL_MAXCONN ELSE maxconn
       IN  /\ maxconn' = ceiling
           /\ minconn' = IF PoolMissing THEN POOL_MINCONN ELSE minconn
           /\ IF idle > 0 \/ out # ceiling
                 THEN /\ used' = out + 1
                      /\ pool_idle' = IF idle > 0 THEN idle - 1 ELSE idle
                      /\ pc' = [pc EXCEPT ![t] = "execute"]
                 ELSE /\ used' = out
                      /\ pool_idle' = idle
                      /\ pc' = [pc EXCEPT ![t] = "grow_read"]
    /\ UNCHANGED <<put_closed, op, reg, ret, open_listings, dbvars, inserted,
                   deleted, append_log>>

\* A call of an API function by a thread that does nothing else.  Such
\* threads are alike: they are numbered in the order of their first calls.
Call(t) ==
    /\ t <= calls + 1
    /\ get_db_connection(t)
    /\ UNCHANGED pipevars

\* the ids of the table in the order the rows are listed
RECURSIVE SortedIds(_)
SortedIds(S) ==
    IF S = {} THEN <<>>
    ELSE LET m == CHOOSE x \in S : \A y \in S : x <= y
         IN  <<m>> \o SortedIds(S \ {m})

\* an id computed from the number of rows instead of the sequence
InsertId_RowCount == Cardinality(DOMAIN websites) + 1
\* INSERT INTO websites (url, regexp, metrics) VALUES (%s, %s, '{}')
\* RETURNING id, lines 334-336: id SERIAL takes the next value of the sequence.
InsertId == next_id

\* url_add, lines 334-336
ExecUrlAdd(t, url, regexp) ==
    /\ pc[t] = "execute"
    /\ op' = [op EXCEPT ![t] = [NoCall EXCEPT !.name = "url_add", !.url = url,
                                               !.regexp = regexp]]
    /\ websites' = websites @@ (InsertId :> [url |-> url, regexp |-> regexp,
                                              metrics |-> <<>>])
    /\ next_id' = next_id + 1
    /\ ret' = [ret EXCEPT ![t] = [NoRet EXCEPT !.kind = "id", !.id = InsertId,
                                               !.rowcount = 1]]
    /\ inserted' = inserted \cup {[id |-> InsertId, url |-> url, regexp |-> regexp]}
    /\ pc' = [pc EXCEPT ![t] = "release"]
    /\ UNCHANGED <<poolvars, reg, calls, open_listings, deleted, append_log,
                   pipevars>>

\* a DELETE that is never committed
DeleteFrom_NotCommitted(table, id) == table
\* DELETE FROM websites WHERE id = %s, line 347: the rows that stay
DeleteFrom(table, id) == [i \in (DOMAIN table) \ {id} |-> table[i]]

\* url_remove, line 347
ExecUrlRemove(t, url_id) ==
    /\ pc[t] = "execute"
    /\ op' = [op EXCEPT ![t] = [NoCall EXCEPT !.name = "url_remove", !.id = url_id]]
    /\ websites' = DeleteFrom(websites, url_id)
    /\ ret' = [ret EXCEPT ![t] = [NoRet EXCEPT !.kind = "ok", !.rowcount =
                                      Cardinality(DOMAIN websites \ DOMAIN websites')]]
    /\ deleted' = IF url_id < next_id THEN deleted \cup {url_id} ELSE deleted
    /\ append_log' = [append_log EXCEPT ![url_id] = <<>>]
    /\ pc' = [pc EXCEPT ![t] = "release"]
    /\ UNCHANGED <<poolvars, reg, calls, open_listings, next_id, inserted,
                   pipevars>>

\* an UPDATE without its WHERE clause
ArrayAppend_EveryRow(table, id, m) ==
    [i \in DOMAIN table |-> [table[i] EXCEPT !.metrics = Append(@, m)]]
\* an UPDATE that sets the array to the new metric alone
ArrayAppend_Overwrite(table, id, m) ==
    IF id \in DOMAIN table
       THEN [table EXCEPT ![id].metrics = <<m>>]
       ELSE table
\* UPDATE websites set metrics = array_append(metrics, (...)::metric)
\* WHERE id=%s, lines 217-221: one statement, which the server runs under
\* the lock of the row it updates; no row with that id, nothing changes.
ArrayAppend(table, id, m) ==
    IF id \in DOMAIN table
       THEN [table EXCEPT ![id].metrics = Append(@, m)]
       ELSE table

\* database_add_metric, lines 216-222
ExecAddMetric(t, url_id, metric) ==
    /\ pc[t] = "execute"
    /\ op' = [op EXCEPT ![t] = [NoCall EXCEPT !.name = "database_add_metric",
                                               !.id = url_id, !.metric = metric]]
    /\ websites' = ArrayAppend(websites, url_id,
                               PgMetric(metric.timestamp, metric.response_time,
                                        metric.return_code, metric.regex_check))
    /\ append_log' = IF url_id \in DOMAIN websites
                        THEN [append_log EXCEPT ![url_id] = Append(@, metric)]
                        ELSE append_log
    /\ ret' = [ret EXCEPT ![t] = [NoRet EXCEPT !.kind = "ok", !.rowcount =
                                      IF websites' = websites THEN 0 ELSE 1]]
    /\ pc' = [pc EXCEPT ![t] = "release"]
    /\ UNCHANGED <<poolvars, reg, calls, open_listings, next_id, inserted, deleted,
                   pipevars>>

\* SELECT id, url, regexp from websites, line 360
SelectList(table) ==
    LET ids == SortedIds(DOMAIN table)
    IN  [i \in 1..Len(ids) |->
            [id |-> ids[i], url |-> table[ids[i]].url,
             regexp |-> table[ids[i]].regexp]]

\* url_list, lines 358-366: the rows are those of the table when the
\* statement runs; the generator hands them out before the release.
ExecUrlList(t) ==
    /\ pc[t] = "execute"
    /\ op' = [op EXCEPT ![t] = [NoCall EXCEPT !.name = "url_list"]]
    /\ ret' = [ret EXCEPT ![t] = [NoRet EXCEPT !.kind = "rows",
                                               !.rows = SelectList(websites)]]
    /\ pc' = [pc EXCEPT ![t] = "release"]
    /\ UNCHANGED <<poolvars, reg, calls, worldvars,
                   pipevars>>

\* SELECT id, url, metrics FROM websites [WHERE id IN %s], lines 379-384,
\* each metric of the array decoded by _cast_metric (lines 106-112)
SelectStatus(table, all, ids) ==
    LET sel == SortedIds({i \in DOMAIN table : all \/ i \in ids})
    IN  [i \in 1..Len(sel) |->
            [id |-> sel[i], url |-> table[sel[i]].url,
             metrics |-> [k \in 1..Len(table[sel[i]].metrics) |->
                             typecast(table[sel[i]].metrics[k])]]]

\* cursor.mogrify('... WHERE id IN %s;', (tuple(ids),)), lines 382-383: the
\* tuple is written as the list of its members between parentheses, "()" for
\* the empty one
MogrifyIn(ids) == <<"(">> \o SortedIds(ids) \o <<")">>
\* the grammar of the server wants at least one expression between the
\* parentheses of IN: "IN ()" is a syntax error
InListParses(text) == Len(text) > 2

\* url_status, lines 376-390.  An error of execute or of fetchmany leaves the
\* generator before line 390: the connection is not released.
ExecUrlStatus(t, all, ids) ==
    /\ pc[t] = "execute"
    /\ op' = [op EXCEPT ![t] = [NoCall EXCEPT !.name = "url_status", !.all = all,
                                               !.ids = ids]]
    /\ LET rows == SelectStatus(websites, all, ids)
           parses == all \/ InListParses(MogrifyIn(ids))
           decodes == \A i \in 1..Len(rows) :
                          \A k \in 1..Len(rows[i].metrics) : rows[i].metrics[k].ok
       IN  /\ ret' = [ret EXCEPT ![t] =
                        IF ~parses THEN [NoRet EXCEPT !.kind = "ProgrammingError"]
                        ELSE IF ~decodes THEN [NoRet EXCEPT !.kind = "InterfaceError"]
                        ELSE [NoRet EXCEPT !.kind = "status", !.rows = rows]]
           /\ pc' = [pc EXCEPT ![t] = IF parses /\ decodes THEN "release" ELSE "raise"]
    /\ UNCHANGED <<poolvars, reg, calls, worldvars,
                   pipevars>>

\* the error leaves url_status with the connection still handed out
Raise(t) ==
    /\ pc[t] = "raise"
    /\ pc' = [pc EXCEPT ![t] = "idle"]
    /\ op' = [op EXCEPT ![t] = NoCall]
    /\ ret' = [ret EXCEPT ![t] = NoRet]
    /\ UNCHANGED <<poolvars, reg, calls, worldvars, pipevars>>

\* _release_db_connection(conn) and the return of the API function
release_db_connection(t) ==
    /\ pc[t] = "release"
    /\ PoolPut
    /\ pc' = [pc EXCEPT ![t] = "idle"]
    /\ op' = [op EXCEPT ![t] = NoCall]
    /\ ret' = [ret EXCEPT ![t] = NoRet]
    /\ UNCHANGED <<reg, calls, open_listings, dbvars, inserted, deleted, append_log>>

Release(t) == release_db_connection(t) /\ UNCHANGED pipevars

\* the PoolError of the second getconn leaves the API function
pool_error(t) ==
    /\ pc[t] = "pool_error"
    /\ pc' = [pc EXCEPT ![t] = "idle"]
    /\ UNCHANGED <<poolvars, op, reg, ret, calls, open_listings, dbvars, inserted,
                   deleted, append_log>>

RaisePoolError(t) == pool_error(t) /\ UNCHANGED pipevars

(* --------------------------------------------------------- database_init *)
\* an initialization that drops nothing
DropTable_Kept(table) == table
\* DROP TABLE IF EXISTS websites, line 193: no table is left.  The table that
\* CREATE TABLE then makes (lines 204-205) has no rows.
DropTable(table) == [i \in {} |-> table[i]]

\* database_init, lines 184-206, called while no other call is running and no
\* listing is open ("This is not threadsafe"): it takes a connection, drops
\* the table and the type, puts the connection back, closes every connection
\* of the pool and forgets the pool; its second _get_db_connection makes a new
\* pool with its two connections, registers the type again, and CREATE TABLE
\* makes the table, whose SERIAL sequence starts at 1.
database_init ==
    /\ inits < MaxInits
    /\ ~connection_pool_lock
    /\ \A t \in Threads : pc[t] = "idle"
    /\ open_listings = 0
    /\ inits' = inits + 1
    /\ pool_exists' = TRUE
    /\ pools_made' = 1
    /\ minconn' = POOL_MINCONN
    /\ maxconn' = POOL_MAXCONN
    /\ pool_idle' = POOL_MINCONN
    /\ used' = 0
    /\ websites' = DropTable(websites)
    /\ next_id' = 1
    /\ deleted' = deleted \cup DOMAIN websites
    /\ append_log' = [i \in DOMAIN append_log |-> <<>>]
    /\ UNCHANGED <<put_closed, threadvars, calls, open_listings, inserted,
                   checkervars, busvars, lockvars, updatervars>>

(* ------------------------------------------------------------- the checker *)
\* Texts are sequences of characters; the strings of the model are spelled
\* out here.
StrChars(str) ==
    CASE str = "" -> <<>>
      [] str = "a" -> <<"a">>
      [] str = "(" -> <<"(">>
      [] str = "a.c" -> <<"a", ".", "c">>

\* bytes.decode('utf-8') on bytes below 128, which stand for themselves, and
\* on bytes that are in no UTF-8 text; ok = FALSE stands for UnicodeDecodeError
Ascii == (97 :> "a") @@ (98 :> "b") @@ (99 :> "c") @@ (120 :> "x")
Utf8Decode(bytes) ==
    IF \A i \in 1..Len(bytes) : bytes[i] \in DOMAIN Ascii
       THEN [ok |-> TRUE, text |-> [i \in 1..Len(bytes) |-> Ascii[bytes[i]]]]
       ELSE [ok |-> FALSE, text |-> <<>>]

\* re.compile on the patterns of the model: characters that stand for
\* themselves, the dot, and a parenthesis that is never closed (re.error)
ReCompiles(pattern) == \A i \in 1..Len(pattern) : pattern[i] # "("

\* re.search: the pattern is tried at each place of the text in turn
RECURSIVE MatchAt(_, _, _)
MatchAt(pattern, text, i) ==
    IF pattern = <<>> THEN TRUE
    ELSE /\ i <= Len(text)
         /\ Head(pattern) = "." \/ Head(pattern) = text[i]
         /\ MatchAt(Tail(pattern), text, i + 1)
re_search(pattern, text) == \E i \in 1..(Len(text) + 1) : MatchAt(pattern, text, i)

\* What urlopen(url, timeout) and conn.read() can give, lines 25-36.  kind is
\* what the Python code sees: the call returns ("ok") or raises HTTPError,
\* URLError or another exception.  code is the status of the HTTP response
\* the server sent, 0 when there was none; cause tells an HTTP response from
\* a failure of the transport and from a failure before any network attempt.
\* urlopen returns for every 2xx status and raises HTTPError for the others.
Ok(content) == [kind |-> "ok", code |-> 200, cause |-> "http", content |-> content]
NoContent == [kind |-> "ok", code |-> 204, cause |-> "http", content |-> <<>>]
NotFound == [kind |-> "HTTPError", code |-> 404, cause |-> "http", content |-> <<>>]
\* the connection is refused: urlopen raises URLError
Refused == [kind |-> "URLError", code |-> 0, cause |-> "transport", content |-> <<>>]
\* the body does not come within the timeout: conn.read() raises
\* socket.timeout, which is no URLError
ReadTimeout == [kind |-> "Exception", code |-> 0, cause |-> "transport", content |-> <<>>]
\* the URL cannot be parsed: urlopen raises ValueError
BadUrl == [kind |-> "Exception", code |-> 0, cause |-> "local", content |-> <<>>]

\* What a check of each URL of the model can meet: the response, and the
\* ticks between the two readings of datetime.datetime.now() (lines 24 and
\* 38), which is negative when the wall clock was set back in between.
Checks(url) ==
    CASE url = "http://old" ->
             {[response |-> Ok(<<97, 98, 99>>), ticks |-> 1],
              [response |-> NoContent, ticks |-> 0],
              [response |-> NotFound, ticks |-> 1],
              [response |-> ReadTimeout, ticks |-> 1]}
      [] url = "http://older" ->
             {[response |-> Ok(<<97, 98, 99>>), ticks |-> 1],
              [response |-> Ok(<<120>>), ticks |-> 0 - 1],
              [response |-> Ok(<<255>>), ticks |-> 0],
              [response |-> Refused, ticks |-> 0]}
      [] url = "http://empty" ->
             {[response |-> Ok(<<97, 98, 99>>), ticks |-> 0],
              [response |-> BadUrl, ticks |-> 0]}
      [] url = "http://paren" ->
             {[response |-> Ok(<<97, 98, 99>>), ticks |-> 1],
              [response |-> NotFound, ticks |-> 0]}
      [] OTHER ->
             {[response |-> Ok(<<97, 98, 99>>), ticks |-> 1]}

\* lines 25-36: the return code of each
ReturnCode(response) ==
    CASE response.kind = "HTTPError" -> response.code
      [] response.kind = "URLError" -> 599
      [] response.kind = "Exception" -> 0 - 1
      [] OTHER -> 200

\* the instants at which a check starts
CheckInstants == {TicksPerSecond + 1}
\* response_time / datetime.timedelta(microseconds=1), line 46
Microseconds(ticks) == ticks * (1000000 \div TicksPerSecond)

\* the test `regexp is not None`
Truthy_NotNone(regexp) == regexp # None
\* `if return_code == 200 and regexp`, line 40: None and '' do not count
Truthy(regexp) == regexp # None /\ regexp # ""

NoTask == [id |-> 0, url |-> "", regexp |-> None]
NoProbe == [return_code |-> 0, content |-> <<>>, now |-> 0, response_time |-> 0,
            code |-> 0, cause |-> ""]
NoEvent == [url_id |-> 0, timestamp |-> 0, response_time |-> 0,
            return_code |-> 0, regex_check |-> None]
\* what a worker thread that has ended holds
Ended == [NoEvent EXCEPT !.url_id = 0 - 1]

\* _get_kafka_producer, lines 272-288: under _kafka_producer_lock the
\* singleton producer is created when there is none
\* (the lock is taken and released within the step; a caller that finds it
\* held sends nothing)
get_kafka_producer ==
    /\ ~kafka_producer_lock
    /\ UNCHANGED lockvars
    /\ kafka_producer' = TRUE
    /\ clients' = [clients EXCEPT !.producers = IF kafka_producer THEN @ ELSE @ + 1]

\* kafka_send_metric, lines 295-300: the message, with the instant as
\* isoformat(' ', timespec='seconds') writes it, cut to its whole second
kafka_send_metric(url_id, timestamp, response_time, return_code, regex_check) ==
    [url_id |-> url_id, timestamp |-> timestamp \div TicksPerSecond,
     response_time |-> response_time, return_code |-> return_code,
     regex_check |-> regex_check]

\* The poller is thread 1 of the checker process.  loop_over_urls, lines
\* 51-54: a round starts with url_list, which takes its connection ...
PollerList ==
    /\ polls < MaxRounds
    /\ polls' = polls + 1
    /\ get_db_connection(1)
    /\ UNCHANGED <<inits, sent, tasks, wpc, task, probe, cycle, busvars, lockvars, updatervars>>

\* ... and runs its SELECT;
PollerSelect ==
    /\ polls > 0
    /\ ExecUrlList(1)

\* a queue that hands out its newest item first
QueuePut_Front(q, item) == <<item>> \o q
\* queue.Queue.put, line 83: the item goes behind those the queue holds
QueuePut(q, item) == Append(q, item)

\* checker, lines 81-83: each row the listing yields is put on the queue,
\* which blocks while the queue is full;
PollerPut ==
    /\ polls > 0
    /\ pc[1] = "release"
    /\ sent < Len(ret[1].rows)
    /\ Len(tasks) < TASKS_MAXSIZE
    /\ tasks' = QueuePut(tasks, ret[1].rows[sent + 1])
    /\ sent' = sent + 1
    /\ UNCHANGED <<poolvars, threadvars, calls, worldvars, inits, polls, wpc, task,
                   probe, cycle, busvars, lockvars, updatervars>>

\* an abs() that changes nothing
PyAbs_Identity(x) == x
\* abs(), line 58
PyAbs(x) == IF x < 0 THEN 0 - x ELSE x

\* loop_over_urls, lines 58-62: the argument of time.sleep, in seconds, for
\* the difference elapsed of the two readings of time.time() (lines 51 and
\* 58); 0 stands for the branch that does not sleep
SleepFor(elapsed) ==
    LET duration == PyAbs(elapsed)
    IN  IF duration < CHECK_PERIOD THEN CHECK_PERIOD - duration ELSE 0

\* after the last row the listing releases its connection, and the poller
\* sleeps until the next round (lines 56-62).
PollerSleep ==
    /\ polls > 0
    /\ pc[1] = "release"
    /\ sent = Len(ret[1].rows)
    /\ release_db_connection(1)
    /\ sent' = 0
    /\ cycle' = [cycle EXCEPT !.slept = TRUE, !.sleep = SleepFor(cycle.elapsed)]
    /\ UNCHANGED <<inits, polls, tasks, wpc, task, probe, busvars, lockvars, updatervars>>

\* worker, line 67: tasks.get()
WorkerGet(w) ==
    /\ wpc[w] = "get"
    /\ tasks # <<>>
    /\ task' = [task EXCEPT ![w] = Head(tasks)]
    /\ tasks' = Tail(tasks)
    /\ wpc' = [wpc EXCEPT ![w] = "probe"]
    /\ UNCHANGED <<poolvars, threadvars, calls, worldvars, inits, polls, sent, probe,
                   cycle, busvars, lockvars, updatervars>>

\* check_url, lines 24-38: the instant, the request and its return code, the
\* time it took
Probe(w) ==
    /\ wpc[w] = "probe"
    /\ \E check \in Checks(task[w].url), now \in CheckInstants :
          LET then == now + check.ticks
          IN  probe' = [probe EXCEPT ![w] =
                          [return_code |-> ReturnCode(check.response),
                           content |-> check.response.content,
                           now |-> now,
                           response_time |-> Microseconds(then - now),
                           code |-> check.response.code,
                           cause |-> check.response.cause]]
    /\ wpc' = [wpc EXCEPT ![w] = "report"]
    /\ UNCHANGED <<poolvars, threadvars, calls, worldvars, inits, polls, sent, tasks,
                   task, cycle, busvars, lockvars, updatervars>>

\* check_url, lines 40-47: the check of the body against the regexp, and the
\* message.  An exception of decode or of re.search leaves check_url and
\* worker (lines 65-68 catch nothing): the thread ends.
Report(w) ==
    /\ wpc[w] = "report"
    /\ LET checked == probe[w].return_code = 200 /\ Truthy(task[w].regexp)
           decoded == Utf8Decode(probe[w].content)
           pattern == StrChars(task[w].regexp)
           raised == checked /\ (~decoded.ok \/ ~ReCompiles(pattern))
           regexp_check == IF ~checked THEN None
                           ELSE IF re_search(pattern, decoded.text) THEN "True"
                           ELSE "False"
       IN  IF raised
              THEN /\ wpc' = [wpc EXCEPT ![w] = "ended"]
                   /\ UNCHANGED <<task, probe, busvars, lockvars>>
              ELSE /\ bus' = Append(bus, kafka_send_metric(task[w].id, probe[w].now,
                                                          probe[w].response_time,
                                                          probe[w].return_code,
                                                          regexp_check))
                   /\ get_kafka_producer
                   /\ wpc' = [wpc EXCEPT ![w] = "get"]
                   /\ task' = [task EXCEPT ![w] = NoTask]
                   /\ probe' = [probe EXCEPT ![w] = NoProbe]
    /\ UNCHANGED <<poolvars, threadvars, calls, worldvars, inits, polls, sent, tasks,
                   cycle, updatervars>>

(* ------------------------------------------------------------- the updater *)
\* The messages check workers of a checker process publish for the entry
\* that has a history, one after the other in turn.
Published ==
    <<kafka_send_metric(Len(OldTable), TicksPerSecond + 1, Microseconds(1), 200, "True"),
      kafka_send_metric(Len(OldTable), 2 * TicksPerSecond, Microseconds(0), 599, None)>>

\* kafka_send_metric, run by a checker process
Publish ==
    /\ Len(bus) < MaxCalls
    /\ bus' = Append(bus, Published[(Len(bus) % Len(Published)) + 1])
    /\ get_kafka_producer
    /\ UNCHANGED <<poolvars, threadvars, calls, worldvars, inits, checkervars, updatervars>>

\* kafka_get_metrics, lines 309-317: every call creates a KafkaConsumer of
\* its own, which reads the topic from the earliest offset
kafka_get_metrics ==
    /\ clients' = [clients EXCEPT !.consumers = @ + 1]
    /\ offset' = 0
    /\ UNCHANGED <<poolvars, threadvars, calls, worldvars, inits, checkervars,
                   kafka_producer, bus, dbupdate_tasks, held, lockvars>>

\* do_dbupdate, line 31: the one call of kafka_get_metrics of an updater
StartSubscription ==
    /\ clients.consumers = 0
    /\ kafka_get_metrics

\* kafka_get_metrics, lines 318-320, and do_dbupdate, lines 31-33: each
\* message the consumer yields is put on the queue, which blocks while the
\* queue is full.
Subscribe ==
    /\ clients.consumers > 0
    /\ offset < Len(bus)
    /\ Len(dbupdate_tasks) < DBUPDATE_TASKS_MAXSIZE
    /\ dbupdate_tasks' = Append(dbupdate_tasks, bus[offset + 1])
    /\ offset' = offset + 1
    /\ UNCHANGED <<poolvars, threadvars, calls, worldvars, inits, checkervars, busvars, lockvars,
                   held>>

\* The updater's workers are threads of its process.  worker, line 18:
\* tasks.get()
Dequeue(t) ==
    /\ pc[t] = "idle"
    /\ held[t] = NoEvent
    /\ dbupdate_tasks # <<>>
    /\ held' = [held EXCEPT ![t] = Head(dbupdate_tasks)]
    /\ dbupdate_tasks' = Tail(dbupdate_tasks)
    /\ UNCHANGED <<poolvars, threadvars, calls, worldvars, inits, checkervars, busvars, lockvars,
                   offset>>

\* worker, line 20: api.database_add_metric(config, *metric) takes its
\* connection ...
WorkerCall(t) ==
    /\ held[t] \notin {NoEvent, Ended}
    /\ get_db_connection(t)
    /\ UNCHANGED pipevars

\* ... and runs its UPDATE with the fields of the message; the server reads
\* the text of the timestamp as that whole second
WorkerAppend(t) ==
    /\ held[t] \notin {NoEvent, Ended}
    /\ ExecAddMetric(t, held[t].url_id,
                     [timestamp |-> held[t].timestamp * TicksPerSecond,
                      response_time |-> held[t].response_time,
                      return_code |-> held[t].return_code,
                      regex_check |-> held[t].regex_check])

\* database_add_metric returns and the worker goes back to tasks.get()
WorkerDone(t) ==
    /\ release_db_connection(t)
    /\ held' = [held EXCEPT ![t] = NoEvent]
    /\ UNCHANGED <<inits, checkervars, busvars, lockvars, offset, dbupdate_tasks>>

\* the PoolError leaves database_add_metric and worker (lines 16-20 catch
\* nothing): the thread ends
WorkerEnds(t) ==
    /\ pool_error(t)
    /\ held' = [held EXCEPT ![t] = Ended]
    /\ UNCHANGED <<inits, checkervars, busvars, lockvars, offset, dbupdate_tasks>>

(* ------------------------------------------------------- specifications *)
\* ids the sequence can hand out within the bounds
IdSpace == 1..(Len(OldTable) + MaxCalls)

\* The process has run no call yet and has no pool, or it has its pool and
\* some listings it has not run to their end, each holding its connection.
InitProcess ==
    /\ open_listings \in 0..POOL_MAXCONN
    /\ pool_exists = (open_listings > 0)
    /\ minconn = (IF pool_exists THEN POOL_MINCONN ELSE 0)
    /\ maxconn = (IF pool_exists THEN POOL_MAXCONN ELSE 0)
    /\ pool_idle = (IF pool_exists THEN POOL_MINCONN - open_listings ELSE 0)
    /\ used = open_listings
    /\ put_closed = 0
    /\ pools_made = (IF pool_exists THEN 1 ELSE 0)
    /\ pc = [t \in Threads |-> "idle"]
    /\ op = [t \in Threads |-> NoCall]
    /\ reg = [t \in Threads |-> 0]
    /\ ret = [t \in Threads |-> NoRet]
    /\ calls = 0
    /\ inserted = {}
    /\ deleted = {}
    /\ append_log = [i \in IdSpace |->
                        IF i \in DOMAIN OldAppends THEN OldAppends[i] ELSE <<>>]

InitTable ==
    /\ websites = OldTable
    /\ next_id = Len(OldTable) + 1

\* Nothing has been checked, published or consumed.  elapsed is what the
\* clock will show, in seconds, between the start of a round of the poller
\* and its end; alive are the check workers that wait for a task, the others
\* have ended.
InitPipeWith(elapsed, alive) ==
    /\ cycle = [elapsed |-> elapsed, slept |-> FALSE, sleep |-> 0]
    /\ inits = 0
    /\ polls = 0
    /\ sent = 0
    /\ tasks = <<>>
    /\ wpc = [w \in Workers |-> IF w \in alive THEN "get" ELSE "ended"]
    /\ task = [w \in Workers |-> NoTask]
    /\ probe = [w \in Workers |-> NoProbe]
    /\ kafka_producer = FALSE
    /\ clients = [producers |-> 0, consumers |-> 0]
    /\ bus = <<>>
    /\ offset = 0
    /\ dbupdate_tasks = <<>>
    /\ held = [t \in Threads |-> NoEvent]
    /\ connection_pool_lock = FALSE
    /\ kafka_producer_lock = FALSE
    /\ lock_errors = {}

\* every check worker waits for a task
InitPipeAt(elapsed) == InitPipeWith(elapsed, Workers)

\* a round of the poller takes five seconds
InitPipe == InitPipeAt(5)

\* the steps of getconn when it finds the pool exhausted
Grow(t) ==
    \/ GrowRead(t)
    \/ GrowWrite(t)
    \/ FloorRead(t)
    \/ FloorWrite(t)
    \/ GetConnRetry(t)

\* the steps every API call takes around its statement
Connect(t) ==
    \/ Grow(t)
    \/ RaisePoolError(t)
    \/ Release(t)

\* a listing left open is run to its end: its generator releases the connection
ListingEnds ==
    /\ open_listings > 0
    /\ open_listings' = open_listings - 1
    /\ PoolPut
    /\ UNCHANGED <<threadvars, calls, dbvars, histvars,
                   pipevars>>

\* a listing left open is dropped by its caller before its end: closing the
\* generator raises GeneratorExit at the yield (lines 366, 389), which leaves
\* the function before _release_db_connection (lines 367, 390), a statement
\* that follows the loop and is in no finally clause
ListingAbandoned ==
    /\ open_listings > 0
    /\ open_listings' = open_listings - 1
    /\ UNCHANGED <<poolvars, threadvars, calls, dbvars, histvars,
                   pipevars>>

\* Threads of one process that list the watch entries concurrently.
InitPool == InitProcess /\ InitTable /\ InitPipe

NextPool ==
    \E t \in Threads :
        \/ Call(t)
        \/ Connect(t)
        \/ ExecUrlList(t)
        \/ ListingEnds

SpecPool == InitPool /\ [][NextPool]_vars

\* The arguments of url_add: the k-th entry added has the k-th URL, so the
\* URLs added are distinct.
Urls == <<"http://a", "http://b", "http://c", "http://d", "http://e", "http://f">>
Regexps == <<None, "a">>
NextUrl == Urls[(Cardinality(inserted) % Len(Urls)) + 1]
NextRegexp == Regexps[(Cardinality(inserted) % Len(Regexps)) + 1]

\* Watch-list management: threads add, remove and list entries concurrently.
\* url_remove is called with the ids handed out so far and with the one that
\* comes next.
InitStore == InitProcess /\ InitTable /\ InitPipe

NextStore ==
    \E t \in Threads :
        \/ Call(t)
        \/ Connect(t)
        \/ ExecUrlAdd(t, NextUrl, NextRegexp)
        \/ \E i \in 1..next_id : ExecUrlRemove(t, i)
        \/ ExecUrlList(t)
        \/ ExecUrlStatus(t, TRUE, {})
        \/ ListingEnds

SpecStore == InitStore /\ [][NextStore]_vars

\* Metric histories: threads append metrics to the entry that has a history
\* and to an id that no entry has, and read the histories back, concurrently.
NextMetrics ==
    \E t \in Threads :
        \/ Call(t)
        \/ Connect(t)
        \/ \E i \in {Len(OldTable), next_id}, m \in ApiMetrics : ExecAddMetric(t, i, m)
        \/ ExecUrlStatus(t, TRUE, {})
        \/ ListingEnds

SpecMetrics == InitStore /\ [][NextMetrics]_vars

\* Status queries: threads ask for the status of every entry, of no entry,
\* of entries that exist and of ids that no entry has, concurrently.
StatusIds == {{}, {1}, {Len(OldTable), Len(OldTable) + 1}, {Len(OldTable) + 1}}

NextStatus ==
    \E t \in Threads :
        \/ Call(t)
        \/ Connect(t)
        \/ Raise(t)
        \/ ExecUrlStatus(t, TRUE, {})
        \/ \E ids \in StatusIds : ExecUrlStatus(t, FALSE, ids)
        \/ ListingEnds
        \/ ListingAbandoned

SpecStatus == InitStore /\ [][NextStatus]_vars

\* The clients of one process: threads that call API functions of the store,
\* publish metrics and start subscriptions, concurrently.
GetMetrics ==
    /\ clients.consumers < MaxCalls
    /\ kafka_get_metrics

NextClients ==
    \/ Publish
    \/ GetMetrics
    \/ \E t \in Threads :
          \/ Call(t)
          \/ Connect(t)
          \/ ExecUrlList(t)

SpecClients == InitStore /\ [][NextClients]_vars

(* ----------------------------------------------- the locks of the singletons *)
\* The sections under a lock are single steps here, so a lock that is held
\* in a state is held by no running call: nothing will release it.

\* _get_db_connection, lines 149-162, when there is no pool and the server
\* cannot be reached: MetricConnectionPool raises under the lock, the except
\* clause releases the lock (line 161) and raises DatabaseError (line 162);
\* _connection_pool stays None.
PoolUnreachable(t) ==
    /\ pc[t] = "idle"
    /\ t <= calls + 1
    /\ calls < MaxCalls
    /\ ~connection_pool_lock
    /\ PoolMissing
    /\ calls' = calls + 1
    /\ connection_pool_lock' = FALSE
    /\ lock_errors' = lock_errors \cup {"DatabaseError: can't connect"}
    /\ UNCHANGED <<poolvars, threadvars, worldvars, inits, checkervars, busvars,
                   updatervars, kafka_producer_lock>>

\* _get_db_connection, lines 149-151, while the lock is held: acquire gives
\* up after its 20 s and the call raises DatabaseError
LockTimeout(t) ==
    /\ pc[t] = "idle"
    /\ t <= calls + 1
    /\ calls < MaxCalls
    /\ connection_pool_lock
    /\ calls' = calls + 1
    /\ lock_errors' = lock_errors \cup {"DatabaseError: can't acquire lock"}
    /\ UNCHANGED <<poolvars, threadvars, worldvars, inits, checkervars, busvars,
                   updatervars, connection_pool_lock, kafka_producer_lock>>

\* database_init, lines 186-194, when a DROP statement fails: the call has
\* taken a connection (line 186, which makes the pool when there is none) and
\* the lock (line 189); the error of cursor.execute leaves the function, which
\* has no try clause, before lines 196-201: the table is as it was, the
\* connection stays handed out and the lock stays held.
DropFails ==
    /\ ~connection_pool_lock
    /\ \A t \in Threads : pc[t] = "idle"
    /\ open_listings = 0
    /\ LET idle == IF PoolMissing THEN POOL_MINCONN ELSE pool_idle
           out == IF PoolMissing THEN 0 ELSE used
           ceiling == IF PoolMissing THEN POOL_MAXCONN ELSE maxconn
       IN  /\ idle > 0 \/ out # ceiling
           /\ pool_exists' = TRUE
           /\ pools_made' = IF PoolMissing THEN pools_made + 1 ELSE pools_made
           /\ minconn' = IF PoolMissing THEN POOL_MINCONN ELSE minconn
           /\ maxconn' = ceiling
           /\ used' = out + 1
           /\ pool_idle' = IF idle > 0 THEN idle - 1 ELSE idle
    /\ connection_pool_lock' = TRUE
    /\ lock_errors' = lock_errors \cup {"psycopg2.Error"}
    /\ UNCHANGED <<put_closed, threadvars, calls, worldvars, inits, checkervars,
                   busvars, updatervars, kafka_producer_lock>>

\* kafka_send_metric, line 295, when there is no producer and the broker
\* cannot be reached: _get_kafka_producer takes the lock (line 272) and
\* _kafka_init_topic (line 277) or KafkaProducer (line 279) raises; no try
\* clause is around them, so line 287 is not reached: the lock stays held,
\* _kafka_producer stays None and nothing is sent.
PublishUnreachable ==
    /\ ~kafka_producer_lock
    /\ ~kafka_producer
    /\ kafka_producer_lock' = TRUE
    /\ lock_errors' = lock_errors \cup {"NoBrokersAvailable"}
    /\ UNCHANGED <<poolvars, threadvars, calls, worldvars, inits, checkervars,
                   busvars, updatervars, connection_pool_lock>>

\* _get_kafka_producer, lines 272-274, while the lock is held: acquire gives
\* up after its 20 s and the call raises KafkaError; nothing is sent
PublishTimeout ==
    /\ kafka_producer_lock
    /\ lock_errors' = lock_errors \cup {"KafkaError: can't acquire lock"}
    /\ UNCHANGED <<poolvars, threadvars, calls, worldvars, inits, checkervars,
                   busvars, updatervars, connection_pool_lock, kafka_producer_lock>>

\* the errors of an acquire that has waited out its timeout
TimeoutErrors == {"DatabaseError: can't acquire lock", "KafkaError: can't acquire lock"}

\* Clients of a process whose servers are at times out of reach: threads
\* list the entries, publish metrics and initialize the database; creating
\* the pool or the producer, and a DROP of database_init, may fail.
NextLocks ==
    \/ Publish
    \/ PublishUnreachable
    \/ PublishTimeout
    \/ database_init
    \/ DropFails
    \/ \E t \in Threads :
          \/ Call(t)
          \/ Connect(t)
          \/ ExecUrlList(t)
          \/ PoolUnreachable(t)
          \/ LockTimeout(t)

SpecLocks == InitStore /\ [][NextLocks]_vars

\* The command line and the tests: one thread that adds and lists entries
\* and initializes the database, one call after the other.  Alone, it always
\* finds room in the pool once it has raised the ceiling.
NextCli ==
    \/ Call(1)
    \/ Grow(1)
    \/ Release(1)
    \/ ExecUrlAdd(1, NextUrl, NextRegexp)
    \/ ExecUrlList(1)
    \/ ListingEnds
    \/ database_init

SpecCli == InitStore /\ [][NextCli]_vars

\* The checker process: the poller and its check workers.  The watch list is
\* the one an earlier process left, or one whose regexps are the empty text
\* and a text that is no regular expression.
OddTable ==
    <<[url |-> "http://empty", regexp |-> "", metrics |-> <<>>],
      [url |-> "http://paren", regexp |-> "(", metrics |-> <<>>]>>

InitChecker ==
    /\ InitProcess
    /\ open_listings = 0
    /\ websites \in {OldTable, OddTable}
    /\ next_id = Len(OldTable) + 1
    /\ InitPipe

NextChecker ==
    \/ PollerList
    \/ PollerSelect
    \/ PollerPut
    \/ PollerSleep
    \/ \E w \in Workers : WorkerGet(w) \/ Probe(w) \/ Report(w)

SpecChecker == InitChecker /\ [][NextChecker]_vars

\* a watch list of n entries whose sites all answer
SteadyTable(n) ==
    [i \in 1..n |-> [url |-> "http://many", regexp |-> None, metrics |-> <<>>]]

\* The checker process with a watch list longer than its queue, and with one
\* check worker left to take the tasks, which come faster than it checks.
InitPoller ==
    /\ InitProcess
    /\ open_listings = 0
    /\ websites = SteadyTable(TASKS_MAXSIZE + 2)
    /\ next_id = Len(websites) + 1
    /\ InitPipeWith(5, {1})

SpecPoller == InitPoller /\ [][NextChecker]_vars

\* The checker process with each clock the poller can meet: a round that
\* takes no time, less than the period, the period, more than the period, and
\* a clock set back within the round by less and by more than the period.
CycleSeconds == {0 - 25, 0 - 5, 0, 5, 20, 25}

InitSleep ==
    /\ InitProcess
    /\ open_listings = 0
    /\ websites = SteadyTable(2)
    /\ next_id = Len(websites) + 1
    /\ \E elapsed \in CycleSeconds : InitPipeAt(elapsed)

SpecSleep == InitSleep /\ [][NextChecker]_vars

\* The checker process under fair scheduling: the poller thread and each
\* worker thread that can take a step eventually takes one.  Its watch list
\* is longer than the queue and the workers together can hold, and each entry
\* has a regexp that is no regular expression.
StallTable ==
    [i \in 1..(TASKS_MAXSIZE + NWorkers + 1) |->
        [url |-> "http://paren", regexp |-> "(", metrics |-> <<>>]]

InitStall ==
    /\ InitProcess
    /\ open_listings = 0
    /\ websites = StallTable
    /\ next_id = Len(websites) + 1
    /\ InitPipe

FairChecker ==
    /\ WF_vars(PollerList \/ PollerSelect \/ PollerPut \/ PollerSleep)
    /\ \A w \in Workers : WF_vars(WorkerGet(w) \/ Probe(w) \/ Report(w))

SpecStall == InitStall /\ [][NextChecker]_vars /\ FairChecker

\* The updater process: the subscription and the workers that append what
\* checker processes publish.
NextUpdater ==
    \/ Publish
    \/ StartSubscription
    \/ Subscribe
    \/ ListingEnds
    \/ \E t \in Threads :
          \/ Dequeue(t)
          \/ WorkerCall(t)
          \/ Grow(t)
          \/ WorkerAppend(t)
          \/ WorkerDone(t)
          \/ WorkerEnds(t)

SpecUpdater == InitStore /\ [][NextUpdater]_vars

\* The updater process under fair scheduling: the subscriber loop and each
\* worker thread that can take a step eventually takes one.
FairUpdater ==
    /\ WF_vars(StartSubscription \/ Subscribe)
    /\ \A t \in Threads :
          WF_vars(Dequeue(t) \/ WorkerCall(t) \/ Grow(t) \/ WorkerAppend(t)
                     \/ WorkerDone(t) \/ WorkerEnds(t))

SpecUpdaterFair == InitStore /\ [][NextUpdater]_vars /\ FairUpdater

(* ------------------------------------------------------------ properties *)
\* C2: when threads call getconn concurrently while every pooled connection
\* is checked out, each of them obtains a connection: no caller ever gets the
\* error 'connection pool exhausted', in any interleaving of the capacity
\* increase and the retry.
C2_NoCallerExhausted == \A t \in Threads : pc[t] # "pool_error"

\* C9: the pool only grows: the ceiling maxconn never decreases, the floor
\* minconn equals the ceiling after every growth, the connections handed out
\* never exceed the ceiling, and putconn never closes a connection.
C9_PoolOnlyGrows ==
    [][pool_exists =>
          /\ maxconn' >= maxconn
          /\ (minconn' # minconn => minconn' = maxconn')
          /\ used' <= maxconn'
          /\ put_closed' = put_closed]_vars

\* the rows of the table the process found, as url_list returns them
OldRows == {[id |-> i, url |-> OldTable[i].url, regexp |-> OldTable[i].regexp] :
                i \in DOMAIN OldTable}
Places(rows, id) == {i \in 1..Len(rows) : rows[i].id = id}
\* thread t runs, in this step, the statement of the API function name
Runs(t, name) == pc[t] = "execute" /\ pc'[t] = "release" /\ op'[t].name = name

C5_RemovedStaysRemoved ==
    [][/\ deleted' \cap DOMAIN websites' = {}
       /\ \A t \in Threads :
             /\ Runs(t, "url_list") \/ Runs(t, "url_status") =>
                   \A i \in 1..Len(ret'[t].rows) : ret'[t].rows[i].id \notin deleted
             /\ Runs(t, "url_remove") =>
                   /\ ret'[t].kind = "ok"
                   /\ op'[t].id \notin DOMAIN websites'
                   /\ \A j \in (DOMAIN websites) \ {op'[t].id} :
                         j \in DOMAIN websites' /\ websites'[j] = websites[j]
                   /\ DOMAIN websites' \subseteq DOMAIN websites]_vars

\* a listing made after a removal is in hand and holds the other entry, while
\* a url_remove of the id already removed has run through and deleted nothing
C5_Witness ==
    \E t, u \in Threads :
        /\ pc[t] = "release" /\ op[t].name \in {"url_list", "url_status"}
        /\ Len(ret[t].rows) > 0
        /\ \E d \in deleted : \A i \in 1..Len(ret[t].rows) : ret[t].rows[i].id # d
        /\ pc[u] = "release" /\ op[u].name = "url_remove"
        /\ op[u].id \in deleted /\ ret[u].rowcount = 0

\* C7: database_add_metric(id, m) changes the history of the entry id and
\* nothing else: the entries stay the same ones, with their urls and regexps,
\* every other history stays as it is, no id is handed out, and the history
\* of id is the one before with one metric more, which reads back with the
\* response time, return code and regex_check of m; when no entry has the id, the table
\* stays as it is and the call runs through without an error.
C7_AppendTouchesOneHistory ==
    [][\A t \in Threads :
          Runs(t, "database_add_metric") =>
              LET id == op'[t].id
                  m == op'[t].metric
              IN  /\ ret'[t].kind = "ok"
                  /\ next_id' = next_id
                  /\ DOMAIN websites' = DOMAIN websites
                  /\ \A j \in DOMAIN websites :
                        /\ websites'[j].url = websites[j].url
                        /\ websites'[j].regexp = websites[j].regexp
                        /\ j # id => websites'[j].metrics = websites[j].metrics
                  /\ id \in DOMAIN websites =>
                        LET old == websites[id].metrics
                            new == websites'[id].metrics
                            last == typecast(new[Len(new)])
                        IN  /\ Len(new) = Len(old) + 1
                            /\ SubSeq(new, 1, Len(old)) = old
                            /\ last.ok
                            /\ last.response_time = m.response_time
                            /\ last.return_code = m.return_code
                            /\ last.regex_check = m.regex_check]_vars

\* one thread has appended to the entry with a history while another has run
\* database_add_metric for an id that no entry has
C7_Witness ==
    \E t, u \in Threads :
        /\ pc[t] = "release" /\ op[t].name = "database_add_metric"
        /\ op[t].id \in DOMAIN websites
        /\ Len(websites[op[t].id].metrics) >= 2
        /\ pc[u] = "release" /\ op[u].name = "database_add_metric"
        /\ op[u].id \notin DOMAIN websites /\ ret[u].rowcount = 0

\* the whole second that is nearest to an instant, the later one of two that
\* are equally near
NearestSecond(ticks) ==
    CHOOSE s \in 0..(ticks \div TicksPerSecond + 1) :
        /\ 2 * (s * TicksPerSecond - ticks) <= TicksPerSecond
        /\ 2 * (ticks - s * TicksPerSecond) < TicksPerSecond
\* the whole second an instant falls into
TruncatedSecond(ticks) == ticks \div TicksPerSecond

\* url_status returns the metrics appended to the entries, with the instant
\* of each brought to a whole second by ToSecond
RoundTrip(t, ToSecond(_)) ==
    Runs(t, "url_status") =>
        /\ ret'[t].kind = "status"
        /\ \A i \in 1..Len(ret'[t].rows) :
              LET row == ret'[t].rows[i]
                  log == append_log[row.id]
              IN  /\ Len(row.metrics) = Len(log)
                  /\ \A k \in 1..Len(log) :
                        row.metrics[k] =
                            [ok |-> TRUE,
                             timestamp |-> [secs |-> ToSecond(log[k].timestamp),
                                            utcoffset |-> 0],
                             response_time |-> log[k].response_time,
                             return_code |-> log[k].return_code,
                             regex_check |-> log[k].regex_check]

\* C8: url_status returns, for every metric that database_add_metric has
\* appended to an entry before its SELECT, and in the order of the appends, a
\* tuple with the same response time, return code and regex_check (None, True
\* and False each as itself) and with the instant at the whole second nearest
\* to the instant that was appended, in UTC.
C8_RoundTripNearestSecond ==
    [][\A t \in Threads : RoundTrip(t, NearestSecond)]_vars

\* C8 as stated: ... with the instant truncated to its whole second.
C8_RoundTripTruncated ==
    [][\A t \in Threads : RoundTrip(t, TruncatedSecond)]_vars

\* url_status has returned a history of two metrics appended in this run, one
\* with regex_check True and an instant between two seconds, one with None
C8_Witness ==
    \E t \in Threads :
        /\ pc[t] = "release" /\ op[t].name = "url_status" /\ ret[t].kind = "status"
        /\ \E i \in 1..Len(ret[t].rows) :
              LET ms == ret[t].rows[i].metrics
              IN  \E j, k \in 1..Len(ms) :
                      /\ ms[j].regex_check = "True"
                      /\ append_log[ret[t].rows[i].id][j].timestamp % TicksPerSecond # 0
                      /\ ms[k].regex_check = None

\* check worker w ends, in this step, the check of the task it took
Reports(w) == wpc[w] = "report" /\ wpc'[w] # "report"

\* C1: for every task a check worker took, the worker publishes exactly one
\* metric event, for the id of the task, whatever the probe gave: a body that
\* cannot be decoded and a regexp that cannot be compiled included.
C1_OneEventPerTask ==
    [][\A w \in Workers :
          Reports(w) =>
              /\ Len(bus') = Len(bus) + 1
              /\ SubSeq(bus', 1, Len(bus)) = bus
              /\ bus'[Len(bus')].url_id = task[w].id]_vars

\* the regexp, as text, is found in the body, as text, at some place
Matches(regexp, content) ==
    LET pattern == StrChars(regexp)
        text == Utf8Decode(content).text
    IN  \E a \in 0..Len(text) :
            /\ a + Len(pattern) <= Len(text)
            /\ \A k \in 1..Len(pattern) :
                  pattern[k] = "." \/ pattern[k] = text[a + k]

\* C3: in every metric event that check_url publishes, regex_check is True or
\* False if and only if the return code is 200 and the regexp of the task is
\* neither absent nor empty, and then it is True exactly when the regexp
\* matches the body; otherwise it is None.
C3_RegexCheckPresence ==
    [][\A w \in Workers :
          Reports(w) /\ Len(bus') > Len(bus) =>
              LET e == bus'[Len(bus')]
                  wanted == /\ probe[w].return_code = 200
                            /\ task[w].regexp \notin {None, ""}
              IN  /\ e.return_code = probe[w].return_code
                  /\ e.regex_check \in {"True", "False"} <=> wanted
                  /\ ~wanted => e.regex_check = None
                  /\ wanted => (e.regex_check = "True"
                                   <=> Matches(task[w].regexp, probe[w].content))]_vars

\* the bus holds the event of a 200 with regex_check True and the event of a
\* 200 without regex_check
C3_Witness ==
    \E i, j \in 1..Len(bus) :
        /\ bus[i].regex_check = "True" /\ bus[i].return_code = 200
        /\ bus[j].regex_check = None /\ bus[j].return_code = 200

\* C6: histories only grow at their end: in every step of the pipeline each
\* entry keeps the history it had as the beginning of the history it has, and
\* the history of an entry is as long as the history the process found plus
\* the number of database_add_metric statements run for it, whichever workers
\* ran them and however their calls overlapped.
C6_HistoryAppendOnly ==
    [][\A id \in DOMAIN websites :
          /\ id \in DOMAIN websites'
          /\ Len(websites'[id].metrics) >= Len(websites[id].metrics)
          /\ SubSeq(websites'[id].metrics, 1, Len(websites[id].metrics))
                = websites[id].metrics
          /\ Len(websites'[id].metrics) = Len(append_log'[id])]_vars

\* two workers have appended to the same entry in calls that overlap, and
\* its history has both metrics after the one it had
C6_Witness ==
    \E t, u \in Threads :
        /\ t # u
        /\ pc[t] = "release" /\ pc[u] = "release"
        /\ op[t].name = "database_add_metric" /\ op[u].name = "database_add_metric"
        /\ op[t].id = op[u].id
        /\ op[t].id \in DOMAIN websites
        /\ Len(websites[op[t].id].metrics) = Len(OldTable[op[t].id].metrics) + 2

\* a database_init call runs in this step
Initializes == inits' # inits
\* the store and the pool as database_init leaves them
Initialized ==
    /\ DOMAIN websites = {}
    /\ next_id = 1
    /\ pool_exists
    /\ minconn = POOL_MINCONN /\ maxconn = POOL_MAXCONN
    /\ pool_idle = POOL_MINCONN /\ used = 0

\* C10: database_init resets the store: after it the table has no entry and
\* hands out ids from 1 again, whatever entries and histories were there
\* before, and the pool is a new one; a database_init on a store that a
\* database_init has left leaves it exactly as it was.
C10_InitResets ==
    [][Initializes =>
          /\ Initialized'
          /\ Initialized => UNCHANGED <<websites, next_id, poolvars>>]_vars

\* C10 as stated: database_init on a store whose schema exists changes
\* nothing: every entry and history is still there, unchanged.
C10_InitKeepsEntries ==
    [][Initializes => websites' = websites /\ next_id' = next_id]_vars

\* a second database_init has run, the first on a table with entries, the
\* second on the table the first left or on one with entries added since
C10_Witness ==
    /\ inits >= 2
    /\ Initialized
    /\ Cardinality(deleted) >= Len(OldTable)

\* C11: whenever the probe of a check received an HTTP response, the
\* return_code of the event the check publishes is the status code of that
\* response, for a 204 as for a 200 or a 404.
C11_ReturnCodeIsStatus ==
    [][\A w \in Workers :
          Reports(w) /\ Len(bus') > Len(bus) /\ probe[w].cause = "http" =>
              bus'[Len(bus')].return_code = probe[w].code]_vars

\* C12: a probe that failed without an HTTP response leaves check_url with an
\* event published and the worker back at tasks.get(); the return_code of the
\* event is 599 when the transport failed, while connecting or while reading
\* the body, and -1 when the failure came before any network attempt.
C12_FailuresBecomeSentinels ==
    [][\A w \in Workers :
          Reports(w) /\ probe[w].cause \in {"transport", "local"} =>
              /\ wpc'[w] = "get"
              /\ Len(bus') = Len(bus) + 1
              /\ bus'[Len(bus')].return_code =
                    (IF probe[w].cause = "transport" THEN 599 ELSE 0 - 1)]_vars

\* C13: every event on the bus has a response_time that is not negative,
\* whatever the two readings of the wall clock were.
C13_ResponseTimeNotNegative ==
    \A i \in 1..Len(bus) : bus[i].response_time >= 0


\* C15: url_status(ids) raises no error and returns exactly the entries whose
\* id is in ids, each once and with its whole history, for every set ids: the
\* empty set and sets that name ids no entry has included; url_status()
\* returns every entry.
C15_StatusReturnsSelection ==
    [][\A t \in Threads :
          pc[t] = "execute" /\ op'[t].name = "url_status" =>
              LET wanted == IF op'[t].all THEN DOMAIN websites
                            ELSE op'[t].ids \cap DOMAIN websites
                  rows == ret'[t].rows
              IN  /\ ret'[t].kind = "status"
                  /\ Len(rows) = Cardinality(wanted)
                  /\ \A i \in wanted :
                        \E k \in 1..Len(rows) :
                            /\ rows[k].id = i
                            /\ rows[k].url = websites[i].url
                            /\ Len(rows[k].metrics) = Len(websites[i].metrics)]_vars


\* C19: an id that url_add has returned, or that an entry the process found
\* has, is never returned by a later url_add, whatever url_remove and
\* database_init calls came in between: no later entry can receive the
\* metrics published for an earlier one.
C19_IdNeverReturnedAgain ==
    [][\A t \in Threads :
          Runs(t, "url_add") =>
              ret'[t].id \notin {r.id : r \in inserted \cup OldRows}]_vars


\* C16, as the code has it: the connection pool and the producer are
\* singletons of the process: however many threads call _get_db_connection
\* and kafka_send_metric, and however their first calls overlap, at most one
\* pool (since _connection_pool was last None) and at most one KafkaProducer
\* are ever created, and the one there is is the one that was created.
C16_OnePoolOneProducer ==
    /\ pools_made <= 1
    /\ pool_exists => pools_made = 1
    /\ clients.producers <= 1
    /\ kafka_producer => clients.producers = 1

\* C16, as claimed: at most one pool, one producer and one consumer client
\* are ever created in the process, for any number of kafka_get_metrics calls.
C16_OneOfEach ==
    /\ pools_made <= 1
    /\ clients.producers <= 1
    /\ clients.consumers <= 1

\* the process started without a pool; both threads are in a call of theirs
\* at once, two metrics have been published, and there is one pool and one
\* producer
C16_Witness ==
    /\ open_listings = 0
    /\ \A t \in Threads : pc[t] # "idle"
    /\ Len(bus) >= 2
    /\ pools_made = 1
    /\ clients.producers = 1


\* the positive part of a number of seconds
Positive(x) == IF x < 0 THEN 0 ELSE x

\* C20, as the code has it: when a round of the poller ends, the poller
\* sleeps max(0, CHECK_PERIOD - |elapsed|) seconds, where elapsed is the
\* difference of the clock readings at the end and at the start of the round:
\* CHECK_PERIOD - |elapsed| when |elapsed| < CHECK_PERIOD, nothing otherwise,
\* and never a negative time, also when the clock was set back meanwhile.
C20_SleepIsPeriodLessDistance ==
    cycle.slept =>
        /\ cycle.sleep = Positive(CHECK_PERIOD -
                                  (IF cycle.elapsed < 0 THEN 0 - cycle.elapsed
                                   ELSE cycle.elapsed))
        /\ cycle.sleep >= 0

\* C20, as claimed: the poller sleeps max(0, CHECK_PERIOD - elapsed) seconds
\* for every pair of clock readings, a clock set back included.
C20_SleepIsPeriodLessElapsed ==
    cycle.slept =>
        /\ cycle.sleep = Positive(CHECK_PERIOD - cycle.elapsed)
        /\ cycle.sleep >= 0

\* a round has ended whose clock was set back by less than the period, and
\* the poller sleeps
C20_Witness ==
    /\ cycle.slept
    /\ cycle.elapsed < 0
    /\ cycle.sleep > 0


\* the rows of the storage listing, which the rounds of the poller go through
Listing == SelectList(websites)
\* the tasks the poller has put on the queue since the process started
PutSoFar == (IF pc[1] = "idle" THEN polls ELSE polls - 1) * Len(Listing) + sent

\* C18: the queue of tasks never holds more than 8 tasks; the poller puts the
\* rows of a listing one by one, in the order of the listing and each once,
\* and ends the round when it has put them all; and the k-th task a worker
\* takes is the k-th task that was put: nothing is lost and nothing overtakes.
C18_BoundedOrderedDispatch ==
    [][/\ Len(tasks') <= 8
       /\ sent' > sent =>
             /\ sent' = sent + 1
             /\ tasks'[Len(tasks')] = Listing[sent']
             /\ SubSeq(tasks', 1, Len(tasks)) = tasks
       /\ sent' < sent => sent = Len(Listing) /\ sent' = 0
       /\ \A w \in Workers :
             wpc[w] = "get" /\ wpc'[w] = "probe" =>
                 LET taken == PutSoFar - Len(tasks)
                 IN  /\ task'[w] = Listing[(taken % Len(Listing)) + 1]
                     /\ Len(tasks') = Len(tasks) - 1]_vars

\* the queue is full and the poller, which has more rows to put, waits, while
\* a worker checks a task it took
C18_Witness ==
    /\ Len(tasks) = TASKS_MAXSIZE
    /\ pc[1] = "release"
    /\ sent < Len(ret[1].rows)
    /\ \E w \in Workers : task[w].id > 0


\* C17: under fair scheduling every task the poller has put on the queue is
\* eventually taken by a worker, so a full queue, at which the poller waits,
\* does not stay full for ever, also when the checks of some entries make
\* workers fail.
C17_FullQueueIsTakenFrom ==
    (Len(tasks) = TASKS_MAXSIZE) ~> (Len(tasks) < TASKS_MAXSIZE)


\* C14: under fair scheduling of the subscriber loop and of the workers, the
\* n-th metric event the subscriber loop has received from the bus, which is
\* for an entry that exists, is eventually in the history of that entry: the
\* history grows by as many metrics as events were received, also when a
\* database_add_metric call of a worker has failed.
C14_EveryReceivedAppended ==
    \A n \in 1..MaxCalls :
        (offset >= n) ~>
            (Len(websites[Len(OldTable)].metrics)
                >= Len(OldTable[Len(OldTable)].metrics) + n)


\* C21: no storage operation leaks a connection: every connection that is
\* checked out belongs to a call that is still running or to a listing whose
\* generator is still open, so once a call has finished, by its return, by
\* an error of its statement or by its caller dropping the listing, the
\* number of checked-out connections is what it was before the call.
C21_NoConnectionLeaked ==
    used = open_listings
             + Cardinality({t \in Threads : pc[t] \in {"execute", "release", "raise"}})


\* C22: a singleton lock is released on every exit path of its section:
\* whenever no call is inside a section, also after the creation of the pool
\* or of the producer has failed and after a statement of database_init has
\* failed, both locks are free, so no later call has waited out the timeout
\* of its acquire.
C22_LocksReleasedOnEveryExit ==
    /\ ~connection_pool_lock
    /\ ~kafka_producer_lock
    /\ lock_errors \cap TimeoutErrors = {}

============================================================================
